---- MODULE Spec2Model ----
(***************************************************************************)
(* Model of the MLK archive search application (src/app.py): the /search   *)
(* route, search_documents, parse_boolean_query, escape_fts_special_chars, *)
(* extract_context and process_prefix.                                     *)
(*                                                                         *)
(* A Python str is a sequence of one-character strings, so that slicing,   *)
(* find, split, strip, lower/upper and the two regular expressions are     *)
(* computed character by character as the interpreter computes them.       *)
(***************************************************************************)
EXTENDS Integers, Sequences, FiniteSets, TLC

(***************************************************************************)
(* Python str primitives                                                   *)
(***************************************************************************)

\* Python's None / SQL NULL (a column value or a missing request argument):
\* no str, every element of a str being a single character
None == <<"None">>

\* no dict yet: the value of payload and of response before they are set
NoDict == [kind |-> "none"]

UpperLetters == <<"A","B","C","D","E","F","G","H","I","J","K","L","M",
                  "N","O","P","Q","R","S","T","U","V","W","X","Y","Z">>

LowerLetters == <<"a","b","c","d","e","f","g","h","i","j","k","l","m",
                  "n","o","p","q","r","s","t","u","v","w","x","y","z">>

Digits == {"0","1","2","3","4","5","6","7","8","9"}

UpperSet == {UpperLetters[i] : i \in 1..26}

LowerSet == {LowerLetters[i] : i \in 1..26}

\* the lower-case letter of each upper-case letter, and the reverse
ToLower == [c \in UpperSet |-> LowerLetters[CHOOSE i \in 1..26 : UpperLetters[i] = c]]

ToUpper == [c \in LowerSet |-> UpperLetters[CHOOSE i \in 1..26 : LowerLetters[i] = c]]

\* str.lower() on one character
LowerChar(c) == IF c \in UpperSet THEN ToLower[c] ELSE c

\* str.upper() on one character
UpperChar(c) == IF c \in LowerSet THEN ToUpper[c] ELSE c

\* str.lower()
Lower(s) == [i \in 1..Len(s) |-> LowerChar(s[i])]

\* str.upper()
Upper(s) == [i \in 1..Len(s) |-> UpperChar(s[i])]

\* whitespace for str.strip() and the regex classes \s and \S
IsSpace(c) == c \in {" ", "\n", "\t", "\r"}

\* the regex class \w, which decides the word boundary \b
IsWordChar(c) == c \in UpperSet \cup LowerSet \cup Digits \cup {"_"}

SetMin(S) == CHOOSE m \in S : \A k \in S : m <= k

SetMax(S) == 0 - SetMin({0 - k : k \in S})

Min2(a, b) == IF a <= b THEN a ELSE b

Max2(a, b) == IF a >= b THEN a ELSE b

\* s[a:b] for 0 <= a, 0 <= b (Python clamps both to len(s))
Slice(s, a, b) ==
    LET hi == Min2(b, Len(s))
    IN  IF a >= hi THEN <<>> ELSE SubSeq(s, a + 1, hi)

\* t occurs in s at 0-based offset i
OccursAt(s, t, i) ==
    /\ i >= 0
    /\ i + Len(t) <= Len(s)
    /\ \A k \in 1..Len(t) : s[i + k] = t[k]

\* s.find(t): the lowest 0-based offset of t in s, -1 when absent
Find(s, t) ==
    LET at == {i \in 0..(Len(s) - Len(t)) : OccursAt(s, t, i)}
    IN  IF at = {} THEN -1 ELSE SetMin(at)

\* t in s
Contains(s, t) == \E i \in 0..(Len(s) - Len(t)) : OccursAt(s, t, i)

\* s.startswith(t)
StartsWith(s, t) == OccursAt(s, t, 0)

\* s.endswith(t)
EndsWith(s, t) == OccursAt(s, t, Len(s) - Len(t))

\* s.strip(): leading and trailing whitespace removed
Strip(s) ==
    LET keep == {i \in 1..Len(s) : ~IsSpace(s[i])}
    IN  IF keep = {} THEN <<>> ELSE SubSeq(s, SetMin(keep), SetMax(keep))

\* s.strip('"'): every leading and trailing double quote removed
StripQuotes(s) ==
    LET keep == {i \in 1..Len(s) : s[i] # "\""}
    IN  IF keep = {} THEN <<>> ELSE SubSeq(s, SetMin(keep), SetMax(keep))

\* s.replace('"', '""')
RECURSIVE DoubleQuotes(_)
DoubleQuotes(s) ==
    IF s = <<>> THEN <<>>
    ELSE (IF Head(s) = "\"" THEN <<"\"", "\"">> ELSE <<Head(s)>>)
         \o DoubleQuotes(Tail(s))

\* s.replace(t, ''): every non-overlapping occurrence of t removed, left to right
RECURSIVE RemoveAll(_, _)
RemoveAll(s, t) ==
    IF s = <<>> THEN <<>>
    ELSE IF OccursAt(s, t, 0) THEN RemoveAll(SubSeq(s, Len(t) + 1, Len(s)), t)
    ELSE <<Head(s)>> \o RemoveAll(Tail(s), t)

\* text.split('\n'): never empty, '' splits to ['']
SplitLines(text) ==
    LET nl    == {i \in 1..Len(text) : text[i] = "\n"}
        cuts  == nl \cup {0, Len(text) + 1}
        start == cuts \ {Len(text) + 1}
        nxt(c) == SetMin({d \in cuts : d > c})
        order == [k \in 1..Cardinality(start) |->
                    CHOOSE c \in start : Cardinality({d \in start : d < c}) = k - 1]
    IN  [k \in 1..Cardinality(start) |->
            IF order[k] + 1 > nxt(order[k]) - 1 THEN <<>>
            ELSE SubSeq(text, order[k] + 1, nxt(order[k]) - 1)]

\* sep.join(parts)
RECURSIVE Join(_, _)
Join(parts, sep) ==
    IF parts = <<>> THEN <<>>
    ELSE IF Len(parts) = 1 THEN parts[1]
    ELSE parts[1] \o sep \o Join(Tail(parts), sep)

(***************************************************************************)
(* Snippet extraction: process_prefix and extract_context                  *)
(***************************************************************************)

\* a line longer than this is cut to a window around the term
LongLineLen == 300

\* characters kept before and after the term's offset in a long line
FocusRadius == 150

\* max_lines=5, the default that search_documents relies on
DefaultMaxLines == 5

Ellipsis == <<".", ".", ".">>

PrefixMarker ==
    <<"P","r","e","f","i","x",":"," ","T","h","i","s"," ","c","h","u","n","k">>

\* re.sub(r'^Prefix: This chunk\s*', '', text), guarded by startswith
process_prefix(text) ==
    IF ~StartsWith(text, PrefixMarker) THEN text
    ELSE LET rest == {i \in (Len(PrefixMarker) + 1)..Len(text) : ~IsSpace(text[i])}
         IN  IF rest = {} THEN <<>> ELSE SubSeq(text, SetMin(rest), Len(text))

\* '\n'.join(lines[:max_lines]), "..." appended when lines were dropped
FirstLines(lines, max_lines) ==
    Join(Slice(lines, 0, max_lines), <<"\n">>)
        \o (IF Len(lines) > max_lines THEN Ellipsis ELSE <<>>)

\* term.lower().strip('"')
TermKey(term) == StripQuotes(Lower(term))

\* the 0-based indices of the lines that contain the term, case-insensitively
MatchLines(lines, term) ==
    {i \in 0..(Len(lines) - 1) : Contains(Lower(lines[i + 1]), TermKey(term))}

\* start_char and end_char of the window cut from a long line, given
\* term_pos = line.lower().find(term_lower)
FocusStart(term_pos) == Max2(0, term_pos - FocusRadius)

FocusEnd(line, term_pos) == Min2(Len(line), term_pos + FocusRadius)

\* focused_line: the window with its "..." markers
FocusedLine(line, term) ==
    LET term_pos   == Find(Lower(line), TermKey(term))
        start_char == FocusStart(term_pos)
        end_char   == FocusEnd(line, term_pos)
    IN  (IF start_char > 0 THEN Ellipsis ELSE <<>>)
            \o Slice(line, start_char, end_char)
            \o (IF end_char < Len(line) THEN Ellipsis ELSE <<>>)

\* the branch for a line of more than 300 characters
LongContext(lines, line_idx, term) ==
    LET start_line == Max2(0, line_idx - 1)
        end_line   == Min2(Len(lines), line_idx + 3)
        context_lines ==
            Slice(lines, start_line, line_idx)
                \o <<FocusedLine(lines[line_idx + 1], term)>>
                \o Slice(lines, line_idx + 1, end_line)
    IN  Join(context_lines, <<"\n">>)

\* start_line of the line window, after the backwards expansion
WindowStart(lines, line_idx, max_lines) ==
    LET start_line == Max2(0, line_idx - 1)
        end_line   == Min2(Len(lines), start_line + max_lines)
    IN  IF end_line - start_line < max_lines /\ start_line > 0
        THEN Max2(0, end_line - max_lines)
        ELSE start_line

\* end_line of the line window
WindowEnd(lines, line_idx, max_lines) ==
    Min2(Len(lines), Max2(0, line_idx - 1) + max_lines)

\* the branch for a line of at most 300 characters
LineContext(lines, line_idx, max_lines) ==
    LET start_line == WindowStart(lines, line_idx, max_lines)
        end_line   == WindowEnd(lines, line_idx, max_lines)
    IN  (IF start_line > 0 THEN Ellipsis ELSE <<>>)
            \o Join(Slice(lines, start_line, end_line), <<"\n">>)
            \o (IF end_line < Len(lines) THEN Ellipsis ELSE <<>>)

\* the context built around line line_idx, the first line with the term
TermContext(lines, line_idx, term, max_lines) ==
    IF Len(lines[line_idx + 1]) > LongLineLen
    THEN LongContext(lines, line_idx, term)
    ELSE LineContext(lines, line_idx, max_lines)

\* faulty variant of TermContexts: the last line with the term is used
TermContextsLastLine(lines, term, max_lines) ==
    LET found == MatchLines(lines, term)
    IN  IF found = {} THEN <<>>
        ELSE <<TermContext(lines, SetMax(found), term, max_lines)>>

\* what one term appends to contexts: nothing when no line contains it
TermContexts(lines, term, max_lines) ==
    LET found == MatchLines(lines, term)
    IN  IF found = {} THEN <<>>
        ELSE <<TermContext(lines, SetMin(found), term, max_lines)>>

\* contexts: one entry per term that occurs in some line, in term order
RECURSIVE Contexts(_, _, _)
Contexts(lines, search_terms, max_lines) ==
    IF search_terms = <<>> THEN <<>>
    ELSE TermContexts(lines, Head(search_terms), max_lines)
         \o Contexts(lines, Tail(search_terms), max_lines)

extract_context(text, search_terms, max_lines) ==
    IF text = <<>> \/ search_terms = <<>>
    THEN process_prefix(FirstLines(SplitLines(text), max_lines))
    ELSE LET lines    == SplitLines(text)
             contexts == Contexts(lines, search_terms, max_lines)
         IN  process_prefix(IF contexts # <<>> THEN contexts[1]
                            ELSE FirstLines(lines, max_lines))

(***************************************************************************)
(* Query translation: parse_boolean_query and escape_fts_special_chars     *)
(***************************************************************************)

OpAnd == <<"A", "N", "D">>

OpOr == <<"O", "R">>

OpNot == <<"N", "O", "T">>

\* token.upper() in ['AND', 'OR', 'NOT']
IsOperator(token) == Upper(token) \in {OpAnd, OpOr, OpNot}

\* [.*:><\[\]{}()\-+^~]
ReservedChars ==
    {".", "*", ":", ">", "<", "[", "]", "{", "}", "(", ")", "-", "+", "^", "~"}

HasReserved(text) == \E i \in 1..Len(text) : text[i] \in ReservedChars

\* \bOP\b matches at 0-based offset i, ignoring case
WordAt(s, op, i) ==
    /\ OccursAt(Upper(s), op, i)
    /\ (i = 0 \/ ~IsWordChar(s[i]))
    /\ (i + Len(op) = Len(s) \/ ~IsWordChar(s[i + Len(op) + 1]))

\* re.sub(r'\bOP\b', ' OP ', s, flags=re.IGNORECASE), scanning from offset i
RECURSIVE SubOperatorFrom(_, _, _)
SubOperatorFrom(s, op, i) ==
    IF i >= Len(s) THEN <<>>
    ELSE IF WordAt(s, op, i)
         THEN <<" ">> \o op \o <<" ">> \o SubOperatorFrom(s, op, i + Len(op))
         ELSE <<s[i + 1]>> \o SubOperatorFrom(s, op, i + 1)

SubOperator(s, op) == SubOperatorFrom(s, op, 0)

\* query.strip() followed by the three substitutions
SpacedOperators(query) ==
    SubOperator(SubOperator(SubOperator(Strip(query), OpAnd), OpOr), OpNot)

\* re.findall of "[^"]{min_inner,}"|\S+ from 0-based offset i:
\* min_inner = 0 is "[^"]*", min_inner = 1 is "[^"]+"
RECURSIVE FindTokensFrom(_, _, _)
FindTokensFrom(s, i, min_inner) ==
    IF i >= Len(s) THEN <<>>
    ELSE LET later  == {j \in (i + 2)..Len(s) : s[j] = "\""}
             close  == SetMin(later)
             phrase == /\ s[i + 1] = "\""
                       /\ later # {}
                       /\ close - (i + 2) >= min_inner
             stops  == {j \in (i + 1)..Len(s) : IsSpace(s[j])}
             run    == IF stops = {} THEN Len(s) ELSE SetMin(stops) - 1
         IN  IF phrase
             THEN <<SubSeq(s, i + 1, close)>> \o FindTokensFrom(s, close, min_inner)
             ELSE IF ~IsSpace(s[i + 1])
                  THEN <<SubSeq(s, i + 1, run)>> \o FindTokensFrom(s, run, min_inner)
                  ELSE FindTokensFrom(s, i + 1, min_inner)

\* tokens = re.findall(r'"[^"]*"|\S+', query)
Tokens(query) == FindTokensFrom(SpacedOperators(query), 0, 0)

escape_fts_special_chars(text) ==
    IF HasReserved(text)
    THEN <<"\"">> \o DoubleQuotes(text) \o <<"\"">>
    ELSE text

\* the quoted-phrase branch: escape the inside, then wrap it in quotes
ProcessPhrase(token) ==
    <<"\"">> \o escape_fts_special_chars(Slice(token, 1, Len(token) - 1)) \o <<"\"">>

\* one iteration of the token loop
ProcessToken(token) ==
    IF IsOperator(token) THEN token
    ELSE IF StartsWith(token, <<"\"">>) /\ EndsWith(token, <<"\"">>)
         THEN ProcessPhrase(token)
         ELSE escape_fts_special_chars(token)

parse_boolean_query(query) ==
    LET tokens == Tokens(query)
    IN  Join([k \in 1..Len(tokens) |-> ProcessToken(tokens[k])], <<" ">>)

\* search_terms = re.findall(r'"[^"]+"|\S+', query)
RawTerms(query) == FindTokensFrom(query, 0, 1)

\* [term.strip('"') for term in search_terms if not term.upper() in [...]]
RECURSIVE KeepTerms(_)
KeepTerms(raw) ==
    IF raw = <<>> THEN <<>>
    ELSE (IF IsOperator(Head(raw)) THEN <<>> ELSE <<StripQuotes(Head(raw))>>)
         \o KeepTerms(Tail(raw))

SearchTerms(query) == KeepTerms(RawTerms(query))

(***************************************************************************)
(* The /search route and search_documents                                  *)
(***************************************************************************)

\* the cap on limit in search()
LimitCap == 100

\* request.args.get('limit', 50)
DefaultLimit == 50

\* request.args.get('offset', 0)
DefaultOffset == 0

\* len(query) < 2
MinQueryLen == 2

\* the bucket prefix that is rewritten to the HTTPS base URL
S3Prefix ==
    <<"s","3",":","/","/","e","x","a","m","p","l","e","-","t","r","a","n",
      "s","f","o","r","m","a","t","i","o","n","s","-","m","l","k","-","a",
      "r","c","h","i","v","e","/","m","l","k","-","a","r","c","h","i","v",
      "e","/">>

\* S3_BASE_URL, at its default
S3_BASE_URL ==
    <<"h","t","t","p","s",":","/","/","e","x","a","m","p","l","e","-","t",
      "r","a","n","s","f","o","r","m","a","t","i","o","n","s","-","m","l",
      "k","-","a","r","c","h","i","v","e",".","s","3",".","a","m","a","z",
      "o","n","a","w","s",".","c","o","m","/","m","l","k","-","a","r","c",
      "h","i","v","e","/">>

\* 'Unknown', the filename of a hit that has none
Unknown == <<"U","n","k","n","o","w","n">>

\* the characters urllib.parse.quote leaves alone (safe='/')
QuoteSafe == UpperSet \cup LowerSet \cup Digits \cup {"_", ".", "-", "~", "/"}

\* the two hexadecimal digits of the ASCII punctuation quote() encodes
HexOf(c) ==
    CASE c = " "  -> <<"2","0">>
      [] c = "\"" -> <<"2","2">>
      [] c = "%"  -> <<"2","5">>
      [] c = "("  -> <<"2","8">>
      [] c = ")"  -> <<"2","9">>
      [] c = ":"  -> <<"3","A">>
      [] c = "\n" -> <<"0","A">>

\* urllib.parse.quote(s)
RECURSIVE Quote(_)
Quote(s) ==
    IF s = <<>> THEN <<>>
    ELSE (IF Head(s) \in QuoteSafe THEN <<Head(s)>> ELSE <<"%">> \o HexOf(Head(s)))
         \o Quote(Tail(s))

\* int(s) accepts this string: optional sign, then digits, whitespace around
IsIntLiteral(s) ==
    LET t == Strip(s)
        d == IF t # <<>> /\ t[1] \in {"-", "+"} THEN Tail(t) ELSE t
    IN  d # <<>> /\ \A i \in 1..Len(d) : d[i] \in Digits

DigitValue(c) ==
    CASE c = "0" -> 0 [] c = "1" -> 1 [] c = "2" -> 2 [] c = "3" -> 3
      [] c = "4" -> 4 [] c = "5" -> 5 [] c = "6" -> 6 [] c = "7" -> 7
      [] c = "8" -> 8 [] c = "9" -> 9

RECURSIVE DigitsValue(_)
DigitsValue(d) ==
    IF d = <<>> THEN 0
    ELSE 10 * DigitsValue(SubSeq(d, 1, Len(d) - 1)) + DigitValue(d[Len(d)])

\* int(s) for a string int() accepts
ParseInt(s) ==
    LET t == Strip(s)
    IN  IF t[1] = "-" THEN 0 - DigitsValue(Tail(t))
        ELSE IF t[1] = "+" THEN DigitsValue(Tail(t))
        ELSE DigitsValue(t)

\* request.args.get(name, default) followed by int(): a missing argument
\* gives the default, which is an int already
ArgIsInt(arg) == IF arg = None THEN TRUE ELSE IsIntLiteral(arg)

ArgInt(arg, default) == IF arg = None THEN default ELSE ParseInt(arg)

\* request.args.get('q', '').strip()
QueryOf(q_arg) == IF q_arg = None THEN <<>> ELSE Strip(q_arg)

\* min(int(request.args.get('limit', 50)), 100)
LimitOf(limit_arg) == Min2(ArgInt(limit_arg, DefaultLimit), LimitCap)

\* int(request.args.get('offset', 0))
OffsetOf(offset_arg) == ArgInt(offset_arg, DefaultOffset)

\* LIMIT ? OFFSET ? as SQLite evaluates it: a negative LIMIT is no limit,
\* a negative OFFSET is 0
SqlitePage(matched, lim, off) ==
    LET from == Max2(0, off)
        upto == IF lim < 0 THEN Len(matched) ELSE from + lim
    IN  Slice(matched, from, upto)

\* SELECT COUNT(*) over the same rows
SqliteCount(matched) == Len(matched)

\* like_query = f"%{query}%"
LikeQuery(q) == <<"%">> \o q \o <<"%">>

\* row['metadata_filename'] or 'Unknown': None and '' both give 'Unknown'
FilenameOf(row) ==
    IF row.metadata_filename = None \/ row.metadata_filename = <<>>
    THEN Unknown
    ELSE row.metadata_filename

\* faulty variant of SeenKey: the raw column is the key, so a NULL filename
\* and a file named 'Unknown' are different keys
SeenKeyRawColumn(row) == row.metadata_filename

\* the key tested against and added to seen_files
SeenKey(row) == FilenameOf(row)

\* faulty variant of HasSearchTerm: an empty term list lets every hit through
HasSearchTermOrNoTerms(text, terms) ==
    \/ terms = <<>>
    \/ \E k \in 1..Len(terms) : Contains(Lower(text), TermKey(terms[k]))

\* any(term.lower().strip('"') in text_lower for term in search_terms)
HasSearchTerm(text, terms) ==
    \E k \in 1..Len(terms) : Contains(Lower(text), TermKey(terms[k]))

\* the pdf_url of a hit
PdfUrl(row) ==
    LET s3_url == row.metadata_data_source_url
    IN  IF s3_url # None /\ s3_url # <<>>
        THEN IF StartsWith(s3_url, S3Prefix)
             THEN S3_BASE_URL \o Quote(RemoveAll(s3_url, S3Prefix))
             ELSE s3_url
        ELSE IF row.metadata_filename # None /\ row.metadata_filename # <<>>
             THEN S3_BASE_URL \o Quote(row.metadata_filename)
             ELSE <<>>

\* the dict appended to formatted_results
FormatResult(row, terms) ==
    [element_id |-> row.element_id,
     context    |-> extract_context(row.text, terms, DefaultMaxLines),
     pdf_url    |-> PdfUrl(row),
     filename   |-> FilenameOf(row),
     record_id  |-> row.record_id]

\* the dict returned from the try block
SuccessPayload(results, total, q, lim, off) ==
    [results |-> results, total |-> total, query |-> q, limit |-> lim, offset |-> off]

\* the dict returned from the except block
ErrorPayload(err, q) ==
    [error |-> err, results |-> <<>>, total |-> 0, query |-> q]

\* the dicts search() returns for a missing and for a short query
MissingQueryPayload ==
    [error |-> "Query parameter \"q\" is required", results |-> <<>>, total |-> 0]

ShortQueryPayload ==
    [error |-> "Query must be at least 2 characters", results |-> <<>>, total |-> 0]

(***************************************************************************)
(* Inputs: the requests and the index contents the model explores          *)
(***************************************************************************)

\* the longest ranked list of rows the index holds for one match expression
MaxHits == 3

\* the values of the q argument: absent, blank, one character after
\* trimming, a word, a lone operator
QArgs ==
    {None, <<" ">>, <<" ", "a">>, <<"A", "b">>, <<"o", "r">>}

\* the values of the limit argument: absent, not a number, negative, zero,
\* small, above the cap
LimitArgs ==
    {None, <<"a", "b", "c">>, <<"-", "1">>, <<"0">>, <<"2">>, <<"1", "0", "1">>}

\* the values of the offset argument
OffsetArgs == {None, <<"1">>, <<"-", "1">>}

TextWithTerm == <<"x", " ", "a", "B", "\n", "y">>

TextWithoutTerm == <<"c", " ", "d">>

FileA == <<"a", ".", "p", "d", "f">>

FileB == <<"b", " ", "c", ".", "p", "d", "f">>

OtherUrl == <<"h", "t", "t", "p", ":", "/", "/", "h", "/", "f">>

\* the rows of documents / documents_fts, without their rank
HitShapes ==
    {[text |-> TextWithTerm, record_id |-> "r1",
      metadata_filename |-> FileA, metadata_data_source_url |-> None],
     [text |-> TextWithoutTerm, record_id |-> "r2",
      metadata_filename |-> FileA, metadata_data_source_url |-> S3Prefix \o FileB],
     [text |-> TextWithTerm, record_id |-> "r3",
      metadata_filename |-> None, metadata_data_source_url |-> None],
     [text |-> TextWithTerm, record_id |-> "r4",
      metadata_filename |-> Unknown, metadata_data_source_url |-> OtherUrl],
     [text |-> None, record_id |-> "r5",
      metadata_filename |-> FileB, metadata_data_source_url |-> None],
     [text |-> TextWithoutTerm, record_id |-> "r6",
      metadata_filename |-> FileB, metadata_data_source_url |-> None]}

\* a ranked list of rows: the element_id of a row is its rank
Ranked(shapes) ==
    [i \in 1..Len(shapes) |->
        [element_id |-> i,
         text |-> shapes[i].text,
         record_id |-> shapes[i].record_id,
         metadata_filename |-> shapes[i].metadata_filename,
         metadata_data_source_url |-> shapes[i].metadata_data_source_url]]

\* the decimal digits in order
DigitChars == <<"0", "1", "2", "3", "4", "5", "6", "7", "8", "9">>

\* the filename of document k of the large index: d001, d002, ...
DocName(k) ==
    <<"d", DigitChars[(k \div 100) + 1], DigitChars[((k \div 10) % 10) + 1],
      DigitChars[(k % 10) + 1]>>

\* an index that holds one more matching document than the cap on limit,
\* each of a file of its own and with the term in its text
LargeIndex ==
    Ranked([k \in 1..(LimitCap + 1) |->
               [text |-> TextWithTerm, record_id |-> "r7",
                metadata_filename |-> DocName(k),
                metadata_data_source_url |-> None]])

\* the ranked row lists the index can hold for a match expression: every
\* list of up to MaxHits rows, and the large index
HitLists ==
    {Ranked(sh) : sh \in UNION {[1..n -> HitShapes] : n \in 0..MaxHits}}
        \cup {LargeIndex}

\* text LIKE '%q%' for a q without wildcards: a case-insensitive substring
\* test, never true of NULL
LikeMatches(text, q) == text # None /\ Contains(Lower(text), Lower(q))

\* the row lists the fallback table can hold for WHERE text LIKE ?
LikeHitLists(q) ==
    {m \in HitLists : \A i \in 1..Len(m) : LikeMatches(m[i].text, q)}

(***************************************************************************)
(* State                                                                   *)
(***************************************************************************)

VARIABLES
    pc,                 \* the statement the request has reached
    q_arg,              \* request.args 'q', None when absent
    limit_arg,          \* request.args 'limit'
    offset_arg,         \* request.args 'offset'
    query,              \* query
    limit,              \* limit
    offset,             \* offset
    conn,               \* the sqlite3 connection: "none", "open", "closed"
    has_fts,            \* has_fts
    fts_query,          \* fts_query
    like_query,         \* like_query
    matched,            \* the ranked rows the index holds for the expression
    rows,               \* results = cursor.fetchall()
    row_idx,            \* the number of rows the hit loop has handled
    search_terms,       \* search_terms
    seen_files,         \* seen_files
    formatted_results,  \* formatted_results
    total_count,        \* total_count
    payload,            \* the dict search_documents is returning
    response,           \* what the route hands back: a JSON body or an exception
    calls,              \* the operations issued on the index, in order
    fault,              \* the step that raised, "none" when none did
    text,               \* extract_context: text
    max_lines,          \* extract_context: max_lines
    context             \* extract_context: its return value

vars ==
    <<pc, q_arg, limit_arg, offset_arg, query, limit, offset, conn, has_fts,
      fts_query, like_query, matched, rows, row_idx, search_terms, seen_files,
      formatted_results, total_count, payload, response, calls, fault,
      text, max_lines, context>>

requestVars == <<q_arg, limit_arg, offset_arg>>

extractVars == <<text, max_lines, context>>

loopVars == <<rows, row_idx, search_terms, seen_files, formatted_results>>

queryVars == <<has_fts, fts_query, like_query, matched, total_count>>

\* no request: the arguments of the route are absent
NoRequest ==
    /\ q_arg = None
    /\ limit_arg = None
    /\ offset_arg = None

\* search_documents has not been entered
NoCall ==
    /\ limit = DefaultLimit
    /\ offset = DefaultOffset
    /\ conn = "none"
    /\ has_fts = FALSE
    /\ like_query = None
    /\ matched = <<>>
    /\ rows = <<>>
    /\ row_idx = 0
    /\ seen_files = {}
    /\ formatted_results = <<>>
    /\ total_count = 0
    /\ payload = NoDict
    /\ response = NoDict
    /\ calls = <<>>
    /\ fault = "none"

\* nothing has been translated
NoTranslation ==
    /\ fts_query = None
    /\ search_terms = <<>>

\* extract_context is not under study
NoExtract ==
    /\ text = <<>>
    /\ max_lines = DefaultMaxLines
    /\ context = None

\* a request arrives at the /search route
Init ==
    /\ pc = "request"
    /\ q_arg \in QArgs
    /\ limit_arg \in LimitArgs
    /\ offset_arg \in OffsetArgs
    /\ query = <<>>
    /\ NoCall
    /\ NoTranslation
    /\ NoExtract

\* an operation issued on the connection
Call(op, expr, lim, off) == [op |-> op, expr |-> expr, lim |-> lim, off |-> off]

Json(body) == [kind |-> "json", body |-> body]

Raised(err, where) == [kind |-> "exception", error |-> err, in |-> where]

(***************************************************************************)
(* search(): the /search route                                             *)
(***************************************************************************)

\* int() raises ValueError on a limit or offset that is not a number
SearchBadArgs ==
    /\ pc = "request"
    /\ ~ArgIsInt(limit_arg) \/ ~ArgIsInt(offset_arg)
    /\ query' = QueryOf(q_arg)
    /\ limit' = IF ArgIsInt(limit_arg) THEN LimitOf(limit_arg) ELSE limit
    /\ response' = Raised("ValueError", "search")
    /\ pc' = "done"
    /\ UNCHANGED <<requestVars, offset, conn, queryVars, loopVars, payload,
                   calls, fault, extractVars>>

\* the statements every request with numeric arguments runs
ReadArgs ==
    /\ pc = "request"
    /\ ArgIsInt(limit_arg)
    /\ ArgIsInt(offset_arg)
    /\ query' = QueryOf(q_arg)
    /\ limit' = LimitOf(limit_arg)
    /\ offset' = OffsetOf(offset_arg)
    /\ UNCHANGED <<requestVars, conn, queryVars, loopVars, payload, calls,
                   fault, extractVars>>

\* if not query
SearchMissingQuery ==
    /\ ReadArgs
    /\ QueryOf(q_arg) = <<>>
    /\ response' = Json(MissingQueryPayload)
    /\ pc' = "done"

\* if len(query) < 2
SearchShortQuery ==
    /\ ReadArgs
    /\ QueryOf(q_arg) # <<>>
    /\ Len(QueryOf(q_arg)) < MinQueryLen
    /\ response' = Json(ShortQueryPayload)
    /\ pc' = "done"

\* results = search_documents(query, limit, offset): the call is entered
SearchAccept ==
    /\ ReadArgs
    /\ Len(QueryOf(q_arg)) >= MinQueryLen
    /\ pc' = "connect"
    /\ UNCHANGED response

(***************************************************************************)
(* search_documents                                                        *)
(***************************************************************************)

\* conn = get_db_connection(), before the try statement
Connect ==
    /\ pc = "connect"
    /\ conn' = "open"
    /\ calls' = Append(calls, Call("connect", <<>>, 0, 0))
    /\ pc' = "probe"
    /\ UNCHANGED <<requestVars, query, limit, offset, queryVars, loopVars,
                   payload, response, fault, extractVars>>

\* sqlite3.connect raises: nothing encloses the call, so the exception
\* leaves search_documents and then search()
ConnectFails ==
    /\ pc = "connect"
    /\ fault' = "connect"
    /\ response' = Raised("OperationalError", "search_documents")
    /\ pc' = "done"
    /\ UNCHANGED <<requestVars, query, limit, offset, conn, queryVars,
                   loopVars, payload, calls, extractVars>>

\* faulty variant of Fail: the except clause returns without the finally
\* clause running
FailWithoutFinally(step, err) ==
    /\ fault' = step
    /\ payload' = ErrorPayload(err, query)
    /\ pc' = "respond"

\* an exception inside the try statement: the except clause builds the
\* error dict, and control passes to the finally clause
Fail(step, err) ==
    /\ fault' = step
    /\ payload' = ErrorPayload(err, query)
    /\ pc' = "finally"

ProbeCall == Call("probe", <<>>, 0, 0)

\* SELECT name FROM sqlite_master ...; has_fts = cursor.fetchone() is not None
Probe ==
    /\ pc = "probe"
    /\ \E b \in BOOLEAN : has_fts' = b
    /\ calls' = Append(calls, ProbeCall)
    /\ pc' = "page"
    /\ UNCHANGED <<requestVars, query, limit, offset, conn, fts_query,
                   like_query, matched, total_count, loopVars, payload,
                   response, fault, extractVars>>

ProbeFails ==
    /\ pc = "probe"
    /\ calls' = Append(calls, ProbeCall)
    /\ Fail("probe", "OperationalError")
    /\ UNCHANGED <<requestVars, query, limit, offset, conn, queryVars,
                   loopVars, response, extractVars>>

\* the statements between fetchall() and the hit loop
StartLoop(page) ==
    /\ rows' = page
    /\ search_terms' = SearchTerms(query)
    /\ seen_files' = {}
    /\ formatted_results' = <<>>
    /\ row_idx' = 0
    /\ pc' = "loop"

\* if has_fts: the MATCH query on documents_fts
FtsQuery ==
    /\ pc = "page"
    /\ has_fts
    /\ fts_query' = parse_boolean_query(query)
    /\ calls' = Append(calls, Call("fts_page", fts_query', limit, offset))
    /\ \E m \in HitLists :
        /\ matched' = m
        /\ StartLoop(SqlitePage(m, limit, offset))
    /\ UNCHANGED <<requestVars, query, limit, offset, conn, has_fts,
                   like_query, total_count, payload, response, fault,
                   extractVars>>

\* the index rejects the match expression, or the read fails
FtsQueryFails ==
    /\ pc = "page"
    /\ has_fts
    /\ fts_query' = parse_boolean_query(query)
    /\ calls' = Append(calls, Call("fts_page", fts_query', limit, offset))
    /\ Fail("page", "OperationalError")
    /\ UNCHANGED <<requestVars, query, limit, offset, conn, has_fts,
                   like_query, matched, total_count, loopVars, response,
                   extractVars>>

\* else: the LIKE query on documents
LikeFallback ==
    /\ pc = "page"
    /\ ~has_fts
    /\ like_query' = LikeQuery(query)
    /\ calls' = Append(calls, Call("like_page", like_query', limit, offset))
    /\ \E m \in LikeHitLists(query) :
        /\ matched' = m
        /\ StartLoop(SqlitePage(m, limit, offset))
    /\ UNCHANGED <<requestVars, query, limit, offset, conn, has_fts,
                   fts_query, total_count, payload, response, fault,
                   extractVars>>

LikeFallbackFails ==
    /\ pc = "page"
    /\ ~has_fts
    /\ like_query' = LikeQuery(query)
    /\ calls' = Append(calls, Call("like_page", like_query', limit, offset))
    /\ Fail("page", "OperationalError")
    /\ UNCHANGED <<requestVars, query, limit, offset, conn, has_fts,
                   fts_query, matched, total_count, loopVars, response,
                   extractVars>>

\* for row in results: the row the loop handles next
InLoop == pc = "loop" /\ row_idx < Len(rows)

CurrentRow == rows[row_idx + 1]

\* continue: the loop moves to the next row and nothing else changes
Continue ==
    /\ row_idx' = row_idx + 1
    /\ UNCHANGED <<requestVars, query, limit, offset, conn, queryVars, rows,
                   search_terms, seen_files, formatted_results, payload,
                   response, calls, fault, extractVars, pc>>

\* if filename in seen_files: continue
HitSkipSeen ==
    /\ InLoop
    /\ SeenKey(CurrentRow) \in seen_files
    /\ Continue

\* row['text'].lower() on a NULL text raises AttributeError
HitTextMissing ==
    /\ InLoop
    /\ SeenKey(CurrentRow) \notin seen_files
    /\ CurrentRow.text = None
    /\ Fail("text", "AttributeError")
    /\ UNCHANGED <<requestVars, query, limit, offset, conn, queryVars,
                   loopVars, response, calls, extractVars>>

\* faulty variant of HitSkipNoTerm: the filename is recorded as seen before
\* the term test, so a hit dropped by the test hides the later hits of its file
HitSkipNoTermRecordsFile ==
    /\ InLoop
    /\ SeenKey(CurrentRow) \notin seen_files
    /\ CurrentRow.text # None
    /\ ~HasSearchTerm(CurrentRow.text, search_terms)
    /\ seen_files' = seen_files \cup {SeenKey(CurrentRow)}
    /\ row_idx' = row_idx + 1
    /\ UNCHANGED <<requestVars, query, limit, offset, conn, queryVars, rows,
                   search_terms, formatted_results, payload, response, calls,
                   fault, extractVars, pc>>

\* if not has_search_term: continue
HitSkipNoTerm ==
    /\ InLoop
    /\ SeenKey(CurrentRow) \notin seen_files
    /\ CurrentRow.text # None
    /\ ~HasSearchTerm(CurrentRow.text, search_terms)
    /\ Continue

\* the row passes both tests
Emits ==
    /\ InLoop
    /\ SeenKey(CurrentRow) \notin seen_files
    /\ CurrentRow.text # None
    /\ HasSearchTerm(CurrentRow.text, search_terms)

\* seen_files.add(filename) ... formatted_results.append({...})
HitEmit ==
    /\ Emits
    /\ seen_files' = seen_files \cup {SeenKey(CurrentRow)}
    /\ formatted_results' =
           Append(formatted_results, FormatResult(CurrentRow, search_terms))
    /\ row_idx' = row_idx + 1
    /\ UNCHANGED <<requestVars, query, limit, offset, conn, queryVars, rows,
                   search_terms, payload, response, calls, fault,
                   extractVars, pc>>

\* an exception while the snippet or the URL of the row is built, after
\* seen_files.add(filename)
HitEmitFails ==
    /\ Emits
    /\ seen_files' = seen_files \cup {SeenKey(CurrentRow)}
    /\ Fail("extract", "Exception")
    /\ UNCHANGED <<requestVars, query, limit, offset, conn, queryVars, rows,
                   row_idx, search_terms, formatted_results, response, calls,
                   extractVars>>

\* the expression handed to the COUNT(*) query
CountCall ==
    IF has_fts THEN Call("fts_count", fts_query, 0, 0)
    ELSE Call("like_count", like_query, 0, 0)

\* faulty variant of TotalCount: the rows of the page are counted
TotalCountOfPage == Len(rows)

\* total_count = cursor.fetchone()[0]
TotalCount == SqliteCount(matched)

\* the COUNT(*) query and the return statement of the try block
CountQuery ==
    /\ pc = "loop"
    /\ row_idx = Len(rows)
    /\ calls' = Append(calls, CountCall)
    /\ total_count' = TotalCount
    /\ payload' = SuccessPayload(formatted_results, total_count', query, limit, offset)
    /\ pc' = "finally"
    /\ UNCHANGED <<requestVars, query, limit, offset, conn, has_fts,
                   fts_query, like_query, matched, loopVars, response, fault,
                   extractVars>>

CountQueryFails ==
    /\ pc = "loop"
    /\ row_idx = Len(rows)
    /\ calls' = Append(calls, CountCall)
    /\ Fail("count", "OperationalError")
    /\ UNCHANGED <<requestVars, query, limit, offset, conn, queryVars,
                   loopVars, response, extractVars>>

\* finally: conn.close()
Finally ==
    /\ pc = "finally"
    /\ conn' = "closed"
    /\ calls' = Append(calls, Call("close", <<>>, 0, 0))
    /\ pc' = "respond"
    /\ UNCHANGED <<requestVars, query, limit, offset, queryVars, loopVars,
                   payload, response, fault, extractVars>>

\* search_documents returns and search() returns jsonify(results)
Respond ==
    /\ pc = "respond"
    /\ response' = Json(payload)
    /\ pc' = "done"
    /\ UNCHANGED <<requestVars, query, limit, offset, conn, queryVars,
                   loopVars, payload, calls, fault, extractVars>>

Next ==
    \/ SearchBadArgs
    \/ SearchMissingQuery
    \/ SearchShortQuery
    \/ SearchAccept
    \/ Connect
    \/ ConnectFails
    \/ Probe
    \/ ProbeFails
    \/ FtsQuery
    \/ FtsQueryFails
    \/ LikeFallback
    \/ LikeFallbackFails
    \/ HitSkipSeen
    \/ HitTextMissing
    \/ HitSkipNoTerm
    \/ HitEmit
    \/ HitEmitFails
    \/ CountQuery
    \/ CountQueryFails
    \/ Finally
    \/ Respond

Spec == Init /\ [][Next]_vars

(***************************************************************************)
(* The query translation on its own (specification SpecTranslate): the     *)
(* match expression and the term list search_documents derives from query  *)
(***************************************************************************)

\* the longest raw query, in pieces
MaxPieces == 5

\* what raw queries are made of: operator words in several cases, a word
\* character, a blank, a double quote, a reserved character
QueryPieces ==
    {<<"o", "r">>, <<"a", "n", "d">>, <<"N", "O", "T">>, <<"x">>,
     <<" ">>, <<"\"">>, <<"-">>}

RECURSIVE Concat(_)
Concat(parts) ==
    IF parts = <<>> THEN <<>> ELSE Head(parts) \o Concat(Tail(parts))

TranslateQueries ==
    {Concat(ps) : ps \in UNION {[1..n -> QueryPieces] : n \in 0..MaxPieces}}

InitTranslate ==
    /\ pc = "translate"
    /\ query \in TranslateQueries
    /\ NoRequest
    /\ NoCall
    /\ NoTranslation
    /\ NoExtract

\* fts_query = parse_boolean_query(query) and the two statements that build
\* search_terms
Translate ==
    /\ pc = "translate"
    /\ fts_query' = parse_boolean_query(query)
    /\ search_terms' = SearchTerms(query)
    /\ pc' = "translated"
    /\ UNCHANGED <<requestVars, query, limit, offset, conn, has_fts,
                   like_query, matched, total_count, rows, row_idx,
                   seen_files, formatted_results, payload, response, calls,
                   fault, extractVars>>

NextTranslate == Translate

SpecTranslate == InitTranslate /\ [][NextTranslate]_vars

(***************************************************************************)
(* extract_context on its own (specification SpecExtract)                  *)
(***************************************************************************)

\* the most lines of a text
MaxTextLines == 2

\* the most terms of a term list
MaxTerms == 2

\* the largest max_lines
MaxLinesArg == 2

\* n copies of the character c
Rep(c, n) == [i \in 1..n |-> c]

\* a term longer than the 150 characters kept after its offset
LongTerm == Rep("t", FocusRadius + 10)

TermAb == <<"a", "b">>

TermChunk == <<"c", "h", "u", "n", "k">>

\* the lines texts are made of: short lines with and without the term, and
\* lines of more than 300 characters with the term at the start, in the
\* middle, at the end, a term of 160 characters, and the boilerplate prefix
ExtractLines ==
    {<<"x", " ", "A", "b">>,
     <<"c", "d">>,
     TermAb \o Rep("p", LongLineLen),
     Rep("p", FocusRadius + 1) \o <<"A", "B">> \o Rep("q", FocusRadius + 1),
     Rep("p", LongLineLen) \o <<"a", "B">>,
     Rep("p", 5) \o Upper(LongTerm) \o Rep("q", FocusRadius),
     PrefixMarker \o <<" ">> \o Rep("p", LongLineLen)}

ExtractTexts ==
    {Join(ls, <<"\n">>) : ls \in UNION {[1..n -> ExtractLines] : n \in 0..MaxTextLines}}

ExtractTerms == {TermAb, <<"z", "z">>, LongTerm, TermChunk}

ExtractTermLists == UNION {[1..n -> ExtractTerms] : n \in 0..MaxTerms}

InitExtract ==
    /\ pc = "extract"
    /\ text \in ExtractTexts
    /\ search_terms \in ExtractTermLists
    /\ max_lines \in 1..MaxLinesArg
    /\ context = None
    /\ fts_query = None
    /\ query = <<>>
    /\ NoRequest
    /\ NoCall

\* context = extract_context(text, search_terms, max_lines)
Extract ==
    /\ pc = "extract"
    /\ context' = extract_context(text, search_terms, max_lines)
    /\ pc' = "extracted"
    /\ UNCHANGED <<requestVars, query, limit, offset, conn, queryVars,
                   loopVars, payload, response, calls, fault, text, max_lines>>

NextExtract == Extract

SpecExtract == InitExtract /\ [][NextExtract]_vars

(***************************************************************************)
(* extract_context on texts of several lines (specification SpecWindow):   *)
(* which term and line are selected, and the lines kept around the match   *)
(***************************************************************************)

\* the most lines of a text
MaxWindowLines == 4

TermD == <<"d">>

\* the lines: a short line with the first term, a short line with the
\* second term, a line of more than 300 characters with the first term
WindowLines ==
    {<<"x", " ", "A", "b">>,
     <<"c", " ", "d">>,
     Rep("p", FocusRadius + 1) \o <<"A", "B">> \o Rep("q", FocusRadius + 1)}

WindowTexts ==
    {Join(ls, <<"\n">>) : ls \in UNION {[1..n -> WindowLines] : n \in 0..MaxWindowLines}}

\* the term lists: none, either term alone, both terms in either order
WindowTermLists ==
    {<<>>, <<TermAb>>, <<TermD>>, <<TermAb, TermD>>, <<TermD, TermAb>>}

InitWindow ==
    /\ pc = "extract"
    /\ text \in WindowTexts
    /\ search_terms \in WindowTermLists
    /\ max_lines \in 1..MaxLinesArg
    /\ context = None
    /\ fts_query = None
    /\ query = <<>>
    /\ NoRequest
    /\ NoCall

SpecWindow == InitWindow /\ [][NextExtract]_vars

(***************************************************************************)
(* Properties of the request pipeline (specification Spec)                 *)
(***************************************************************************)

\* the positions of the operations of one kind in calls
CallsOf(ops) == {i \in 1..Len(calls) : calls[i].op \in ops}

PageOps == {"fts_page", "like_page"}

CountOps == {"fts_count", "like_count"}

\* the rows the hit loop has handled so far
HandledRows == {rows[i] : i \in 1..row_idx}

\* a case-insensitive substring test of the terms against a text
TextHasTerm(t, terms) ==
    \E k \in 1..Len(terms) : Contains(Lower(t), Lower(terms[k]))

NoDuplicateFilename(results) ==
    \A i, j \in 1..Len(results) :
        i # j => results[i].filename # results[j].filename

\* C1: the results list never holds two entries with the same filename (a
\* missing filename counting as 'Unknown'): in formatted_results after every
\* iteration of the hit loop, and in the results of the response.
C1_UniqueFilenames ==
    /\ NoDuplicateFilename(formatted_results)
    /\ response.kind = "json" => NoDuplicateFilename(response.body.results)

\* the loop has handled a hit without filename and a hit of the file named
\* 'Unknown', both containing a term, and emitted one result for the two
C1_Witness ==
    /\ pc = "loop"
    /\ \E r1, r2 \in HandledRows :
        /\ r1.metadata_filename = None
        /\ r2.metadata_filename = Unknown
        /\ r1.text # None /\ TextHasTerm(r1.text, search_terms)
        /\ r2.text # None /\ TextHasTerm(r2.text, search_terms)
    /\ Len(formatted_results) = 1

\* every result was built from a handled hit whose text contains a term
ResultsHaveTerm ==
    \A k \in 1..Len(formatted_results) :
        \E r \in HandledRows :
            /\ r.element_id = formatted_results[k].element_id
            /\ r.text # None
            /\ TextHasTerm(r.text, search_terms)

\* a hit whose text contains no term is passed over: the loop goes on to the
\* next row, with the same results and without an exception
SkipIsSilent ==
    (InLoop /\ CurrentRow.text # None /\ ~TextHasTerm(CurrentRow.text, search_terms))
        => /\ pc' = "loop"
           /\ row_idx' = row_idx + 1
           /\ formatted_results' = formatted_results
           /\ fault' = fault
           /\ payload' = payload

\* C2: each result comes from a hit whose raw text contains, as a
\* case-insensitive substring, at least one term of the term list; a hit that
\* contains none is skipped silently, giving neither a result nor an error.
C2_TermFilter == [](ResultsHaveTerm) /\ [][SkipIsSilent]_vars

\* the loop has skipped a hit without a term and emitted another hit
C2_Witness ==
    /\ pc = "loop"
    /\ Len(formatted_results) >= 1
    /\ \E r \in HandledRows :
        /\ r.text # None
        /\ ~TextHasTerm(r.text, search_terms)
        /\ \A k \in 1..Len(formatted_results) :
              formatted_results[k].element_id # r.element_id

IsErrorPayload(body) ==
    /\ DOMAIN body = {"error", "results", "total", "query"}
    /\ body.results = <<>>
    /\ body.total = 0
    /\ body.query = query

\* C3: whatever step of search_documents fails, the call does not raise and
\* returns the error payload {error, results: [], total: 0, query}.
C3_FailureReturnsErrorPayload ==
    (pc = "done" /\ fault # "none")
        => /\ response.kind = "json"
           /\ IsErrorPayload(response.body)

\* C4: when the connection was opened it is closed exactly once before
\* search_documents returns, on the success path and on every failure path,
\* and no operation is issued on it after the close.
C4_ClosedExactlyOnce ==
    /\ Cardinality(CallsOf({"close"})) <= 1
    /\ \A i \in CallsOf({"close"}) : i = Len(calls)
    /\ (pc \in {"respond", "done"} /\ CallsOf({"connect"}) # {})
           => /\ Cardinality(CallsOf({"close"})) = 1
              /\ conn = "closed"
    /\ conn = "open" <=> (CallsOf({"connect"}) # {} /\ CallsOf({"close"}) = {})

\* a request that failed inside the hit loop, after two queries on the
\* connection, has returned with the connection closed
C4_Witness ==
    /\ pc = "done"
    /\ fault = "text"
    /\ conn = "closed"
    /\ Len(calls) = 4

\* C5: a request whose q is missing or shorter than 2 characters after
\* trimming gets a structured validation error with results = [] and
\* total = 0, raises nothing, opens no connection and issues no index query.
C5_ShortQueryRejected ==
    (pc = "done" /\ Len(QueryOf(q_arg)) < MinQueryLen)
        => /\ response.kind = "json"
           /\ "error" \in DOMAIN response.body
           /\ response.body.results = <<>>
           /\ response.body.total = 0
           /\ calls = <<>>
           /\ conn = "none"

IsSuccess == response.kind = "json" /\ "error" \notin DOMAIN response.body

\* C10: in a successful response total is the number of all rows the index
\* holds for the match expression of the page query, whatever limit, offset,
\* the dedup and the term filter leave of them; the count query is given the
\* expression of the page query; the results are never more than total.
C10_TotalCountsAllMatches ==
    IsSuccess =>
        /\ response.body.total = Len(matched)
        /\ Len(response.body.results) <= response.body.total
        /\ \E i \in CallsOf(PageOps) : \E j \in CallsOf(CountOps) :
              /\ i < j
              /\ calls[j].expr = calls[i].expr
              /\ (calls[i].op = "fts_page") <=> (calls[j].op = "fts_count")

\* a successful response with fewer results than total
C10_Witness ==
    /\ IsSuccess
    /\ Len(response.body.results) < response.body.total
    /\ Len(response.body.results) >= 1

\* the row has a text that contains a term
RowHasTerm(row) == row.text # None /\ TextHasTerm(row.text, search_terms)

\* among the first n rows of the page, the positions of the rows that
\* contain a term and are the first of their filename to do so
FirstTermHits(n) ==
    LET has  == [k \in 1..n |-> RowHasTerm(rows[k])]
        name == [k \in 1..n |-> FilenameOf(rows[k])]
    IN  {k \in 1..n :
            /\ has[k]
            /\ \A j \in 1..(k - 1) : ~(has[j] /\ name[j] = name[k])}

\* the results are the given rows, one result per row, in rank order
ResultsAreRows(results, hits) ==
    /\ Len(results) = Cardinality(hits)
    /\ \A i \in 1..Len(results) :
          \E k \in hits :
              /\ results[i].element_id = rows[k].element_id
              /\ results[i].filename = FilenameOf(rows[k])
              /\ results[i].record_id = rows[k].record_id
    /\ \A i \in 1..(Len(results) - 1) :
          results[i].element_id < results[i + 1].element_id

\* C14: a hit dropped by the term filter does not suppress a later hit of
\* the same file: when the hit loop has handled the whole page, and in a
\* successful response, the results are exactly, in rank order, the first
\* hit of each filename whose text contains a term, one result per such
\* filename.
C14_FirstTermHitPerFile ==
    /\ (pc = "loop" /\ row_idx = Len(rows)) =>
          ResultsAreRows(formatted_results, FirstTermHits(Len(rows)))
    /\ IsSuccess =>
          ResultsAreRows(response.body.results, FirstTermHits(Len(rows)))

\* a successful response built from a page where a hit without a term is
\* followed by a hit of the same file with a term, which gets the result
C14_Witness ==
    /\ pc = "done"
    /\ IsSuccess
    /\ \E j, k \in 1..Len(rows) :
          /\ j < k
          /\ FilenameOf(rows[j]) = FilenameOf(rows[k])
          /\ rows[j].text # None
          /\ ~RowHasTerm(rows[j])
          /\ k \in FirstTermHits(Len(rows))
          /\ \E i \in 1..Len(response.body.results) :
                response.body.results[i].element_id = rows[k].element_id

\* C15: whatever integer limit and offset a request with a valid q
\* carries, zero and negative values included, the limit handed to the page
\* query is at most 100 and a successful response holds at most 100 results.
C15_AtMostCapResults ==
    /\ \A i \in CallsOf(PageOps) : calls[i].lim <= LimitCap
    /\ IsSuccess => Len(response.body.results) <= LimitCap

(***************************************************************************)
(* Properties of the query translation (specification SpecTranslate)       *)
(***************************************************************************)

\* a token the tokenizer matched as a double-quoted phrase
IsPhrase(token) ==
    Len(token) >= 2 /\ StartsWith(token, <<"\"">>) /\ EndsWith(token, <<"\"">>)

\* a token in the match expression as step 2 of the translation states it:
\* operators and tokens without a reserved character as they are, a token
\* with a reserved character inside one pair of double quotes with its own
\* double quotes doubled; a phrase token has its pair of quotes already
QuotedOnce(token) ==
    IF IsOperator(token) \/ ~HasReserved(token) \/ IsPhrase(token) THEN token
    ELSE <<"\"">> \o DoubleQuotes(token) \o <<"\"">>

\* C6: every non-operator token that contains a reserved character is in the
\* match expression inside exactly one pair of double quotes with each
\* internal double quote doubled, and every non-operator token without a
\* reserved character is in it unchanged.
C6_ReservedTokensQuotedOnce ==
    pc = "translated" =>
        fts_query =
            Join([k \in 1..Len(Tokens(query)) |-> QuotedOnce(Tokens(query)[k])],
                 <<" ">>)

\* the quote-aware tokens of the raw query itself, an operator word that
\* stands alone in its upper-case form
StandaloneTokens(q) ==
    LET raw == FindTokensFrom(Strip(q), 0, 0)
    IN  [k \in 1..Len(raw) |-> IF IsOperator(raw[k]) THEN Upper(raw[k]) ELSE raw[k]]

\* C7: AND, OR, NOT are operators only as whitespace-delimited words outside
\* double quotes: a quoted phrase reaches the match expression with its
\* characters, case and spacing as typed, and a whitespace-delimited word is
\* one token whatever and/or/not it contains between non-word characters.
C7_OperatorsOnlyStandalone ==
    pc = "translated" =>
        fts_query =
            Join([k \in 1..Len(StandaloneTokens(query)) |->
                     ProcessToken(StandaloneTokens(query)[k])], <<" ">>)

\* the non-operator tokens, a phrase token without its pair of quotes
RECURSIVE TermsOfTokens(_)
TermsOfTokens(tokens) ==
    IF tokens = <<>> THEN <<>>
    ELSE (IF IsOperator(Head(tokens)) THEN <<>>
          ELSE IF IsPhrase(Head(tokens))
               THEN <<Slice(Head(tokens), 1, Len(Head(tokens)) - 1)>>
               ELSE <<Head(tokens)>>)
         \o TermsOfTokens(Tail(tokens))

\* C8: the term list is the sequence of non-operator tokens of the
\* match-expression tokenizer for the same query, in order, phrase tokens
\* without their quotes, duplicates kept; it holds no empty string.
C8_TermsAreTheTokens ==
    pc = "translated" =>
        /\ search_terms = TermsOfTokens(Tokens(query))
        /\ \A k \in 1..Len(search_terms) : search_terms[k] # <<>>

(***************************************************************************)
(* Properties of extract_context (specification SpecExtract)               *)
(***************************************************************************)

\* the terms, by position, that occur in some line of the text
MatchingTerms ==
    {k \in 1..Len(search_terms) : MatchLines(SplitLines(text), search_terms[k]) # {}}

\* the term the snippet is built around: the earliest in list order
SelectedTerm == search_terms[SetMin(MatchingTerms)]

\* the 0-based index of the first line that contains it
SelectedIdx == SetMin(MatchLines(SplitLines(text), SelectedTerm))

SelectedLine == SplitLines(text)[SelectedIdx + 1]

\* the snippet was cut from a line of more than 300 characters
LongLineSelected ==
    /\ pc = "extracted"
    /\ text # <<>>
    /\ MatchingTerms # {}
    /\ Len(SelectedLine) > LongLineLen

\* the offset of the term in the selected line
TermPos == Find(Lower(SelectedLine), TermKey(SelectedTerm))

\* the window of 150 characters either side of the offset, "..." before it
\* exactly when it starts after the line's beginning and after it exactly
\* when it ends before the line's end
MarkedWindow ==
    (IF TermPos - FocusRadius > 0 THEN Ellipsis ELSE <<>>)
        \o Slice(SelectedLine, Max2(0, TermPos - FocusRadius), TermPos + FocusRadius)
        \o (IF TermPos + FocusRadius < Len(SelectedLine) THEN Ellipsis ELSE <<>>)

\* C9: when the selected match line is longer than 300 characters the
\* returned string contains the whole matched term, ignoring case, whatever
\* its length and position, and the focused window has a leading "..."
\* exactly when its start was cut and a trailing "..." exactly when its end
\* was cut.
C9_LongLineKeepsTerm ==
    LongLineSelected =>
        /\ Contains(Lower(context), TermKey(SelectedTerm))
        /\ \E k \in 1..Len(SplitLines(context)) :
              SplitLines(context)[k] = MarkedWindow

\* the snippet was cut around a line of at most 300 characters
ShortLineSelected ==
    /\ pc = "extracted"
    /\ text # <<>>
    /\ MatchingTerms # {}
    /\ Len(SelectedLine) <= LongLineLen

\* the lines s .. e-1 (0-based) of the text joined by newlines, "..." before
\* them exactly when s is not line 0 and after them exactly when e-1 is not
\* the last line
MarkedLines(s, e) ==
    (IF s > 0 THEN Ellipsis ELSE <<>>)
        \o Join(Slice(SplitLines(text), s, e), <<"\n">>)
        \o (IF e < Len(SplitLines(text)) THEN Ellipsis ELSE <<>>)

\* C11: when the selected match line has at most 300 characters and
\* max_lines >= 1, the returned context is a window of lines that contains
\* the match line and has at most max_lines lines, with "..." prepended
\* exactly when the window does not start at line 0 and appended exactly
\* when it does not reach the last line (the boilerplate prefix removed).
C11_WindowHoldsMatchLine ==
    ShortLineSelected =>
        \E s \in 0..SelectedIdx :
            \E e \in (SelectedIdx + 1)..Len(SplitLines(text)) :
                /\ e - s <= max_lines
                /\ context = process_prefix(MarkedLines(s, e))

(***************************************************************************)
(* Properties of extract_context (specification SpecWindow)                *)
(***************************************************************************)

\* the lines of a long-line context as described: the line before the match
\* line when there is one, the focused window, and the next three lines, or
\* all the lines that follow when fewer than three do
ThreeFollowing ==
    LET lines == SplitLines(text)
    IN  Slice(lines, Max2(0, SelectedIdx - 1), SelectedIdx)
            \o <<FocusedLine(SelectedLine, SelectedTerm)>>
            \o Slice(lines, SelectedIdx + 1, Min2(Len(lines), SelectedIdx + 4))

\* C12: when the selected match line is longer than 300 characters the
\* context is, in order, the one line before the match line if there is
\* one, the focused window of the match line, and the three lines that
\* follow the match line (all remaining lines when fewer than three
\* follow), joined by newlines.
C12_LongLineNeighbours ==
    LongLineSelected =>
        context = process_prefix(Join(ThreeFollowing, <<"\n">>))

\* C13: for a non-empty term list the snippet is built around the first
\* line, top to bottom, that contains (ignoring case) the earliest term in
\* list order that occurs in any line: it is the context of that line and
\* that term, whatever the other terms and the later occurrences are; when
\* no term occurs in any line it is the first max_lines lines with a
\* trailing "..." exactly when the text has more than max_lines lines (the
\* boilerplate prefix removed in both cases).
C13_EarliestTermFirstLine ==
    (pc = "extracted" /\ search_terms # <<>>) =>
        LET lines    == SplitLines(text)
            hits     == [k \in 1..Len(search_terms) |->
                            MatchLines(lines, search_terms[k])]
            matching == {k \in 1..Len(search_terms) : hits[k] # {}}
            first    == SetMin(matching)
        IN  IF matching # {}
            THEN context = process_prefix(
                     TermContext(lines, SetMin(hits[first]), search_terms[first],
                                 max_lines))
            ELSE context =
                     process_prefix(MarkedLines(0, Min2(max_lines, Len(lines))))

\* a snippet built around the first term of the list, which occurs on more
\* than one line and not on line 0, where the second term occurs
C13_Witness ==
    /\ pc = "extracted"
    /\ MatchingTerms = {1, 2}
    /\ SelectedIdx > 0
    /\ 0 \in MatchLines(SplitLines(text), search_terms[2])
    /\ Cardinality(MatchLines(SplitLines(text), SelectedTerm)) > 1
    /\ context = process_prefix(
           TermContext(SplitLines(text), SelectedIdx, SelectedTerm, max_lines))

\* no term occurs in a text of more lines than max_lines
C13_FallbackWitness ==
    /\ pc = "extracted"
    /\ search_terms # <<>>
    /\ MatchingTerms = {}
    /\ Len(SplitLines(text)) > max_lines
    /\ context = process_prefix(MarkedLines(0, max_lines))

====
